---------------------------- MODULE Spec2Model ----------------------------
(***************************************************************************)
(* ACME certificate revocation of the PKI backend                          *)
(* (builtin/logical/pki/path_acme_revoke.go): acmeRevocationHandler and    *)
(* its two authorization paths, acmeRevocationByPoP and                    *)
(* acmeRevocationByAccount, run by concurrent request workers over a       *)
(* shared storage and one process-wide revokeStorageLock.                  *)
(***************************************************************************)
EXTENDS Integers, Sequences, FiniteSets, TLC

(***************************************************************************)
(* Bounds of the model.                                                    *)
(***************************************************************************)
\* Number of request workers that may run the handler concurrently.
NumProcs == 2
\* The clock (time.Now) runs over 0..MaxTime.
MaxTime == 1

Procs == 1..NumProcs
Times == 0..MaxTime

(***************************************************************************)
(* Certificates.  A DER blob stands for the certificate it encodes: its    *)
(* serial, its NotAfter and its public key.  derA and derC are the         *)
(* certificates the CA issued; derB carries derA's serial with other       *)
(* bytes and another key; derD was never stored by this CA.                *)
(***************************************************************************)
DerBlobs == {"derA", "derB", "derC", "derD"}

CertOf(der) ==
    CASE der = "derA" -> [Raw |-> "derA", Serial |-> "s1", NotAfter |-> 9, PublicKey |-> "k1"]
      [] der = "derB" -> [Raw |-> "derB", Serial |-> "s1", NotAfter |-> 9, PublicKey |-> "k2"]
      [] der = "derC" -> [Raw |-> "derC", Serial |-> "s2", NotAfter |-> 0, PublicKey |-> "k1"]
      [] der = "derD" -> [Raw |-> "derD", Serial |-> "s3", NotAfter |-> 9, PublicKey |-> "k2"]

Serials == {"s1", "s2", "s3"}

\* Go's nil: as a string, as a certificate, as a storage entry, as an account.
Nil == "nil"
NoCert == [Raw |-> Nil]
NoEntry == [exists |-> FALSE]
NoAccount == [Status |-> Nil]

\* base64.RawURLEncoding.DecodeString: the decoded bytes, or an error for a
\* string that is not unpadded URL-safe base64.
Base64Strings == {"b64:derA", "b64:derB", "b64:derC", "b64:derD", "b64:junk", "not-base64"}

DecodeString(s) ==
    CASE s = "b64:derA" -> [err |-> FALSE, bytes |-> "derA"]
      [] s = "b64:derB" -> [err |-> FALSE, bytes |-> "derB"]
      [] s = "b64:derC" -> [err |-> FALSE, bytes |-> "derC"]
      [] s = "b64:derD" -> [err |-> FALSE, bytes |-> "derD"]
      [] s = "b64:junk" -> [err |-> FALSE, bytes |-> "junk"]
      [] OTHER          -> [err |-> TRUE,  bytes |-> Nil]

\* x509.ParseCertificate: the certificate of a well-formed DER blob, else an error.
ParseCertificate(bytes) ==
    IF bytes \in DerBlobs
      THEN [err |-> FALSE, cert |-> CertOf(bytes)]
      ELSE [err |-> TRUE,  cert |-> NoCert]

\* serialFromCert: the normalized serial of a parsed certificate.
serialFromCert(cert) == cert.Serial

(***************************************************************************)
(* Request data (map[string]interface{}).  A field is absent or holds a    *)
(* JSON value of some Go type.  A float64 is kept in halves: num = 1 is    *)
(* 0.5, num = 2 is 1.0, num = -1 is -0.5.                                  *)
(***************************************************************************)
Absent == [type |-> "absent"]
StringVal(s) == [type |-> "string", str |-> s]
FloatVal(h) == [type |-> "float64", num |-> h]
BoolVal == [type |-> "bool"]

\* Go's int(float64): truncation toward zero, on a value kept in halves.
IntOf(h) == IF h >= 0 THEN h \div 2 ELSE -((-h) \div 2)

CertificateFields == {Absent, BoolVal} \cup {StringVal(s) : s \in Base64Strings}
ReasonFields == {Absent, StringVal("1")} \cup {FloatVal(h) : h \in {-1, 0, 1, 2}}

(***************************************************************************)
(* Caller identity context (jwsCtx): Existing, Kid and the signing key.    *)
(* The key "hmac" is a key that is no crypto.Signer.                       *)
(***************************************************************************)
Keys == {"k1", "k2", "hmac"}
Kids == {"acct1", "acct2"}

UserCtxs ==
    {[Existing |-> FALSE, Kid |-> Nil, Key |-> k] : k \in Keys}
    \cup {[Existing |-> TRUE, Kid |-> kid, Key |-> k] : kid \in Kids, k \in Keys}

\* Every request of the model: the data fields and the caller identity.
Requests ==
    {[certificate |-> c, reason |-> r, userCtx |-> u] :
        c \in CertificateFields, r \in ReasonFields, u \in UserCtxs}

\* A request with the certificate der in base64, no reason unless given.
Request(der, reason, existing, kid, key) ==
    [certificate |-> StringVal(der), reason |-> reason,
     userCtx |-> [Existing |-> existing, Kid |-> kid, Key |-> key]]

\* The requests the concurrent workers draw from, one per way to the locked
\* region: derA from the holder of its key and from the account it was
\* issued to, and derC from the holder of its key.
RaceRequests ==
    { Request("b64:derA", Absent, FALSE, Nil, "k1"),
      Request("b64:derA", Absent, TRUE, "acct1", "k1"),
      Request("b64:derC", Absent, FALSE, Nil, "k1") }

(***************************************************************************)
(* Errors.  A handler result is nil or an error of one of the ACME kinds;  *)
(* `at` names the check that produced it.                                  *)
(***************************************************************************)
ErrMalformed == "ErrMalformed"
ErrBadRevocationReason == "ErrBadRevocationReason"
ErrServerInternal == "ErrServerInternal"
ErrAlreadyRevoked == "ErrAlreadyRevoked"
ErrUnauthorized == "ErrUnauthorized"

Fail(kind, check) == [err |-> kind, at |-> check]
Ok == [err |-> Nil, at |-> "revokeCert"]
Pending == [err |-> Nil, at |-> "pending"]

(***************************************************************************)
(* Collaborators outside path_acme_revoke.go.                              *)
(***************************************************************************)
\* Account records of the ACME state: status by key identifier.
AccountStatusValid == "valid"
Accounts == [kid \in Kids |-> IF kid = "acct1" THEN [Status |-> AccountStatusValid]
                                               ELSE [Status |-> "deactivated"]]

\* Issued-certificate index: the (account, serial) pairs on record.
IssuedCerts == {<<"acct1", "s1">>, <<"acct2", "s1">>}

\* Errors LoadAccount may return: an untyped storage error, an error that
\* already wraps ErrServerInternal, or none.
LoadAccountErrors == {"storage error", ErrServerInternal}

\* validatePrivateKeyMatchesCert: nil iff the signer's public key is the
\* certificate's public key.
validatePrivateKeyMatchesCert(signer, cert) == signer = cert.PublicKey

\* userCtx.Key.Key.(crypto.Signer): whether the key can sign.
IsSigner(key) == key # "hmac"

VARIABLES
    now,                \* time.Now()
    certs,              \* storage, "certs/<serial>": the entry or NoEntry
    revoked,            \* storage, "revoked/<serial>": the record or NoEntry
    crlRebuildDue,      \* whether revokeCert has signalled a CRL rebuild
    revokeStorageLock,  \* b.revokeStorageLock: its holder, 0 when unlocked
    pc,                 \* each worker's position in the handler
    req,                \* each worker's request (data, userCtx)
    loc,                \* each worker's locals: cert, certEntry, revEntry, ...
    ret                 \* each worker's (response, error)

vars == <<now, certs, revoked, crlRebuildDue, revokeStorageLock, pc, req, loc, ret>>

NoReq == [certificate |-> Absent, reason |-> Absent,
          userCtx |-> [Existing |-> FALSE, Kid |-> Nil, Key |-> "hmac"]]

\* The handler's locals before it has set them.  everLocked and wrote are
\* history: whether this request has taken the lock, has written a record.
NoLocals == [cert |-> NoCert, certEntry |-> NoEntry, revEntry |-> NoEntry,
             account |-> NoAccount, acmeEntry |-> NoEntry, everLocked |-> FALSE,
             wrote |-> FALSE]

\* A stored certificate and a revocation record.
CertEntry(raw) == [exists |-> TRUE, Value |-> raw]
RevocationEntry(raw, t) == [exists |-> TRUE, Value |-> raw, RevocationTime |-> t]

\* The state after the backend is constructed and the CA has issued derA and derC.
Init ==
    /\ now = 0
    /\ certs = [s \in Serials |-> CASE s = "s1" -> CertEntry("derA")
                                     [] s = "s2" -> CertEntry("derC")
                                     [] OTHER -> NoEntry]
    /\ revoked = [s \in Serials |-> NoEntry]
    /\ crlRebuildDue = FALSE
    /\ revokeStorageLock = 0
    /\ pc = [p \in Procs |-> "idle"]
    /\ req = [p \in Procs |-> NoReq]
    /\ loc = [p \in Procs |-> NoLocals]
    /\ ret = [p \in Procs |-> Pending]

(***************************************************************************)
(* acmeRevocationHandler: input validation.                                *)
(***************************************************************************)
\* The certificate field: present, a string, base64, a certificate.
ParseCertificateField(field) ==
    IF field.type = "absent"
      THEN [ret |-> Fail(ErrMalformed, "certificate"), cert |-> NoCert]
    ELSE IF field.type # "string"
      THEN [ret |-> Fail(ErrMalformed, "certificate"), cert |-> NoCert]
    ELSE LET d == DecodeString(field.str) IN
      IF d.err
        THEN [ret |-> Fail(ErrMalformed, "certificate"), cert |-> NoCert]
      ELSE LET c == ParseCertificate(d.bytes) IN
        IF c.err
          THEN [ret |-> Fail(ErrMalformed, "certificate"), cert |-> NoCert]
          ELSE [ret |-> Pending, cert |-> c.cert]

\* The reason field: absent, or a float64 whose int() is 0.
CheckReason(field) ==
    IF field.type = "absent" THEN Pending
    ELSE IF field.type # "float64" THEN Fail(ErrMalformed, "reason")
    ELSE IF IntOf(field.num) # 0 THEN Fail(ErrBadRevocationReason, "reason")
    ELSE Pending

\* Mutant: a certificate counts as expired from its NotAfter on.
Expired_FromNotAfterOn(cert, t) == cert.NotAfter <= t

\* cert.NotAfter.Before(time.Now()).
Expired(cert, t) == cert.NotAfter < t

\* Mutant: the expiry check comes before the reason check.
ValidateInput_ExpiryFirst(data, t) ==
    LET c == ParseCertificateField(data.certificate)
        r == CheckReason(data.reason)
    IN  IF c.ret # Pending THEN c
        ELSE IF Expired(c.cert, t)
          THEN [ret |-> Fail(ErrMalformed, "expiry"), cert |-> c.cert]
        ELSE IF r # Pending THEN [ret |-> r, cert |-> c.cert]
          ELSE [ret |-> Pending, cert |-> c.cert]

\* The three input checks in the handler's order, at clock value t.
ValidateInput(data, t) ==
    LET c == ParseCertificateField(data.certificate)
        r == CheckReason(data.reason)
    IN  IF c.ret # Pending THEN c
        ELSE IF r # Pending THEN [ret |-> r, cert |-> c.cert]
        ELSE IF Expired(c.cert, t)
          THEN [ret |-> Fail(ErrMalformed, "expiry"), cert |-> c.cert]
          ELSE [ret |-> Pending, cert |-> c.cert]

\* Worker p leaves the handler with error e.
Return(p, e) ==
    /\ ret' = [ret EXCEPT ![p] = e]
    /\ pc' = [pc EXCEPT ![p] = "done"]

\* Worker p goes on to the step at `next`.
Goto(p, next) ==
    /\ pc' = [pc EXCEPT ![p] = next]
    /\ UNCHANGED ret

(***************************************************************************)
(* acmeRevocationHandler: the certificate record store.                    *)
(***************************************************************************)
\* fetchCertBySerial(sc, prefix, serial) on a namespace of the storage.
fetchCertBySerial(store, serial) == store[serial]

\* Mutant: an entry under the serial is taken for the presented certificate.
CertMatches_SerialOnly(certEntry, cert) == TRUE

\* bytes.Equal(certEntry.Value, cert.Raw).
CertMatches(certEntry, cert) == certEntry.Value = cert.Raw

\* Mutant: a serial with no stored certificate is reported as a bad request.
CheckStored_MissingIsMalformed(cert, store, cfgErr, certErr) ==
    LET certEntry == fetchCertBySerial(store, serialFromCert(cert)) IN
      IF cfgErr
        THEN [ret |-> Fail(ErrServerInternal, "config"), certEntry |-> NoEntry]
      ELSE IF certErr
        THEN [ret |-> Fail(ErrServerInternal, "certs"), certEntry |-> NoEntry]
      ELSE IF ~certEntry.exists
        THEN [ret |-> Fail(ErrMalformed, "certs"), certEntry |-> NoEntry]
      ELSE IF ~CertMatches(certEntry, cert)
        THEN [ret |-> Fail(ErrMalformed, "match"), certEntry |-> certEntry]
      ELSE [ret |-> Pending, certEntry |-> certEntry]

\* The CRL configuration is fetched, then the stored certificate, which
\* must exist and equal the presented one.  cfgErr and certErr say whether
\* getConfigWithUpdate and fetchCertBySerial fail.
CheckStored(cert, store, cfgErr, certErr) ==
    LET certEntry == fetchCertBySerial(store, serialFromCert(cert)) IN
      IF cfgErr
        THEN [ret |-> Fail(ErrServerInternal, "config"), certEntry |-> NoEntry]
      ELSE IF certErr
        THEN [ret |-> Fail(ErrServerInternal, "certs"), certEntry |-> NoEntry]
      ELSE IF ~certEntry.exists
        THEN [ret |-> Fail(ErrServerInternal, "certs"), certEntry |-> NoEntry]
      ELSE IF ~CertMatches(certEntry, cert)
        THEN [ret |-> Fail(ErrMalformed, "match"), certEntry |-> certEntry]
      ELSE [ret |-> Pending, certEntry |-> certEntry]

\* Mutant: a certificate that differs from the stored one replaces it.
acmeRevocationHandler_StoresPresented(p, r) ==
    /\ pc[p] = "idle"
    /\ \E cfgErr, certErr \in BOOLEAN :
         LET v == ValidateInput(r, now)
             c == IF v.ret # Pending
                    THEN [ret |-> v.ret, certEntry |-> NoEntry]
                    ELSE CheckStored(v.cert, certs, cfgErr, certErr)
         IN  /\ req' = [req EXCEPT ![p] = r]
             /\ loc' = [loc EXCEPT ![p] = [NoLocals EXCEPT !.cert = v.cert,
                                                           !.certEntry = c.certEntry]]
             /\ certs' = IF c.ret.at = "match"
                           THEN [certs EXCEPT ![serialFromCert(v.cert)] = CertEntry(v.cert.Raw)]
                           ELSE certs
             /\ IF c.ret # Pending
                  THEN Return(p, c.ret)
                  ELSE Goto(p, "fetchRevoked")
    /\ UNCHANGED <<now, revoked, crlRebuildDue, revokeStorageLock>>

\* A request r reaches worker p, which validates its fields, fetches the
\* CRL configuration and checks the certificate against the stored one.
\* These steps read the request, the clock and storage no request writes;
\* they are taken as one.
acmeRevocationHandler(p, r) ==
    /\ pc[p] = "idle"
    /\ \E cfgErr, certErr \in BOOLEAN :
         LET v == ValidateInput(r, now)
             c == IF v.ret # Pending
                    THEN [ret |-> v.ret, certEntry |-> NoEntry]
                    ELSE CheckStored(v.cert, certs, cfgErr, certErr)
         IN  /\ req' = [req EXCEPT ![p] = r]
             /\ loc' = [loc EXCEPT ![p] = [NoLocals EXCEPT !.cert = v.cert,
                                                           !.certEntry = c.certEntry]]
             /\ IF c.ret # Pending
                  THEN Return(p, c.ret)
                  ELSE Goto(p, "fetchRevoked")
    /\ UNCHANGED <<now, certs, revoked, crlRebuildDue, revokeStorageLock>>

\* Mutant: the revocation record that was read is not looked at.
AlreadyRevoked_Ignored(revEntry) == FALSE

\* revEntry != nil: the serial has a revocation record.
AlreadyRevoked(revEntry) == revEntry.exists

\* Mutant: a caller with an account is authorized before the revocation
\* record is looked at.
FetchRevEntry_AccountFirst(p) ==
    /\ pc[p] = "fetchRevoked"
    /\ \E err \in BOOLEAN :
         LET serial == serialFromCert(loc[p].cert)
             revEntry == fetchCertBySerial(revoked, serial)
         IN  IF err
               THEN Return(p, Fail(ErrServerInternal, "revoked")) /\ UNCHANGED loc
             ELSE /\ loc' = [loc EXCEPT ![p].revEntry = revEntry]
                  /\ IF req[p].userCtx.Existing
                       THEN Goto(p, "byAccount")
                     ELSE IF AlreadyRevoked(revEntry)
                       THEN Return(p, Fail(ErrAlreadyRevoked, "revoked"))
                       ELSE Goto(p, "byPoP")
    /\ UNCHANGED <<now, certs, revoked, crlRebuildDue, revokeStorageLock, req>>

\* Mutant: a caller whose signing key is the certificate's goes the
\* proof-of-possession way whatever userCtx.Existing says.
FetchRevEntry_KeyFirst(p) ==
    /\ pc[p] = "fetchRevoked"
    /\ \E err \in BOOLEAN :
         LET serial == serialFromCert(loc[p].cert)
             revEntry == fetchCertBySerial(revoked, serial)
         IN  IF err
               THEN Return(p, Fail(ErrServerInternal, "revoked")) /\ UNCHANGED loc
             ELSE /\ loc' = [loc EXCEPT ![p].revEntry = revEntry]
                  /\ IF AlreadyRevoked(revEntry)
                       THEN Return(p, Fail(ErrAlreadyRevoked, "revoked"))
                     ELSE IF \/ ~req[p].userCtx.Existing
                             \/ req[p].userCtx.Key = loc[p].cert.PublicKey
                       THEN Goto(p, "byPoP")
                       ELSE Goto(p, "byAccount")
    /\ UNCHANGED <<now, certs, revoked, crlRebuildDue, revokeStorageLock, req>>

\* The revocation record is read; if there is one the request ends with
\* ErrAlreadyRevoked, else it goes to the path userCtx.Existing selects.
FetchRevEntry(p) ==
    /\ pc[p] = "fetchRevoked"
    /\ \E err \in BOOLEAN :
         LET serial == serialFromCert(loc[p].cert)
             revEntry == fetchCertBySerial(revoked, serial)
         IN  IF err
               THEN Return(p, Fail(ErrServerInternal, "revoked")) /\ UNCHANGED loc
             ELSE /\ loc' = [loc EXCEPT ![p].revEntry = revEntry]
                  /\ IF AlreadyRevoked(revEntry)
                       THEN Return(p, Fail(ErrAlreadyRevoked, "revoked"))
                     ELSE IF ~req[p].userCtx.Existing
                       THEN Goto(p, "byPoP")
                       ELSE Goto(p, "byAccount")
    /\ UNCHANGED <<now, certs, revoked, crlRebuildDue, revokeStorageLock, req>>

(***************************************************************************)
(* acmeRevocationByPoP and acmeRevocationByAccount: authorization.         *)
(***************************************************************************)
\* Mutant: any signer is taken for the holder of the certificate's key.
ProofOfPossession_AnySigner(key, cert) ==
    IF ~IsSigner(key) THEN Fail(ErrMalformed, "pop") ELSE Pending

\* The two checks of acmeRevocationByPoP: the key is a signer, and its
\* public key is the certificate's.
ProofOfPossession(key, cert) ==
    IF ~IsSigner(key) THEN Fail(ErrMalformed, "pop")
    ELSE IF ~validatePrivateKeyMatchesCert(key, cert) THEN Fail(ErrMalformed, "pop")
    ELSE Pending

\* Mutant: a failed proof of possession sets the error and goes on to the lock.
VerifyPoP_FallThrough(p) ==
    /\ pc[p] = "byPoP"
    /\ LET e == ProofOfPossession(req[p].userCtx.Key, loc[p].cert) IN
         /\ ret' = [ret EXCEPT ![p] = e]
         /\ pc' = [pc EXCEPT ![p] = "lockPoP"]
    /\ UNCHANGED <<now, certs, revoked, crlRebuildDue, revokeStorageLock, req, loc>>

\* The signing key must be a signer whose public key is the certificate's.
VerifyPoP(p) ==
    /\ pc[p] = "byPoP"
    /\ LET e == ProofOfPossession(req[p].userCtx.Key, loc[p].cert) IN
         IF e # Pending
           THEN Return(p, e)
           ELSE Goto(p, "lockPoP")
    /\ UNCHANGED <<now, certs, revoked, crlRebuildDue, revokeStorageLock, req, loc>>

\* Mutant: an account is also turned away while a revocation is under way.
AccountNotValid_WhileLocked(account) ==
    account.Status # AccountStatusValid \/ revokeStorageLock # 0

\* Mutant: only a revoked account is turned away.
AccountNotValid_OnlyRevoked(account) == account.Status = "revoked"

\* account.Status != AccountStatusValid.
AccountNotValid(account) == account.Status # AccountStatusValid

\* b.acmeState.LoadAccount: the account of userCtx.Kid, which must be valid.
\* An error of LoadAccount is returned as it is, wrapped with context.
LoadAccount(p) ==
    /\ pc[p] = "byAccount"
    /\ \/ \E e \in LoadAccountErrors :
            /\ Return(p, Fail(e, "account"))
            /\ UNCHANGED loc
       \/ LET account == Accounts[req[p].userCtx.Kid] IN
            /\ loc' = [loc EXCEPT ![p].account = account]
            /\ IF AccountNotValid(account)
                 THEN Return(p, Fail(ErrUnauthorized, "account"))
                 ELSE Goto(p, "getIssuedCert")
    /\ UNCHANGED <<now, certs, revoked, crlRebuildDue, revokeStorageLock, req>>

\* err != nil || acmeEntry == nil.
NotIssuedTo(err, acmeEntry) == err \/ ~acmeEntry.exists

\* b.acmeState.GetIssuedCert: the account must have been issued this serial.
GetIssuedCert(p) ==
    /\ pc[p] = "getIssuedCert"
    /\ \E err \in BOOLEAN :
         LET serial == serialFromCert(loc[p].cert)
             acmeEntry == IF <<req[p].userCtx.Kid, serial>> \in IssuedCerts
                            THEN [exists |-> TRUE] ELSE NoEntry
         IN  /\ loc' = [loc EXCEPT ![p].acmeEntry = IF err THEN NoEntry ELSE acmeEntry]
             /\ IF NotIssuedTo(err, acmeEntry)
                  THEN Return(p, Fail(ErrMalformed, "issued"))
                  ELSE Goto(p, "lockAccount")
    /\ UNCHANGED <<now, certs, revoked, crlRebuildDue, revokeStorageLock, req>>

(***************************************************************************)
(* The locked region: b.revokeStorageLock.Lock(), revokeCert, and the      *)
(* deferred Unlock().                                                      *)
(***************************************************************************)
\* sync.Mutex.Lock by worker p standing at `at`: it blocks while the mutex is held.
Lock(p, at) ==
    /\ pc[p] = at
    /\ revokeStorageLock = 0
    /\ revokeStorageLock' = p
    /\ loc' = [loc EXCEPT ![p].everLocked = TRUE]
    /\ Goto(p, "revokeCert")
    /\ UNCHANGED <<now, certs, revoked, crlRebuildDue, req>>

\* Mutant: acmeRevocationByPoP calls revokeCert without having taken the lock.
LockByPoP_AfterRevoke(p) ==
    /\ pc[p] = "lockPoP"
    /\ loc' = [loc EXCEPT ![p].everLocked = TRUE]
    /\ Goto(p, "revokeCert")
    /\ UNCHANGED <<now, certs, revoked, crlRebuildDue, revokeStorageLock, req>>

\* acmeRevocationByPoP takes the lock.
LockByPoP(p) == Lock(p, "lockPoP")

\* Mutant: acmeRevocationByAccount goes on to revokeCert without the mutex.
LockByAccount_NoMutex(p) ==
    /\ pc[p] = "lockAccount"
    /\ loc' = [loc EXCEPT ![p].everLocked = TRUE]
    /\ Goto(p, "revokeCert")
    /\ UNCHANGED <<now, certs, revoked, crlRebuildDue, revokeStorageLock, req>>

\* acmeRevocationByAccount takes the lock.
LockByAccount(p) == Lock(p, "lockAccount")

\* revokeCert(sc, config, cert): writes the revocation record of the serial
\* and signals the CRL rebuild, without reading the record first; or fails
\* and writes nothing.
revokeCert(p) ==
    /\ pc[p] = "revokeCert"
    /\ LET serial == serialFromCert(loc[p].cert) IN
         \/ /\ revoked' = [revoked EXCEPT ![serial] = RevocationEntry(loc[p].cert.Raw, now)]
            /\ crlRebuildDue' = TRUE
            /\ loc' = [loc EXCEPT ![p].wrote = TRUE]
            /\ ret' = [ret EXCEPT ![p] = Ok]
         \/ /\ ret' = [ret EXCEPT ![p] = Fail("revokeCert error", "revokeCert")]
            /\ UNCHANGED <<revoked, crlRebuildDue, loc>>
    /\ pc' = [pc EXCEPT ![p] = "unlock"]
    /\ UNCHANGED <<now, certs, revokeStorageLock, req>>

\* Mutant: the lock is released only when revokeCert returned no error.
Unlock_OnSuccessOnly(p) ==
    /\ pc[p] = "unlock"
    /\ revokeStorageLock' = IF ret[p].err = Nil THEN 0 ELSE revokeStorageLock
    /\ pc' = [pc EXCEPT ![p] = "done"]
    /\ UNCHANGED <<now, certs, revoked, crlRebuildDue, req, loc, ret>>

\* Mutant: when revokeCert returned an error the record of the serial is
\* deleted before the lock is released.
Unlock_Rollback(p) ==
    /\ pc[p] = "unlock"
    /\ revokeStorageLock' = 0
    /\ revoked' = IF ret[p].err = Nil THEN revoked
                  ELSE [revoked EXCEPT ![serialFromCert(loc[p].cert)] = NoEntry]
    /\ pc' = [pc EXCEPT ![p] = "done"]
    /\ UNCHANGED <<now, certs, crlRebuildDue, req, loc, ret>>

\* The deferred b.revokeStorageLock.Unlock() as the path function returns
\* what revokeCert returned.
Unlock(p) ==
    /\ pc[p] = "unlock"
    /\ revokeStorageLock' = 0
    /\ pc' = [pc EXCEPT ![p] = "done"]
    /\ UNCHANGED <<now, certs, revoked, crlRebuildDue, req, loc, ret>>

\* The response has been sent; the worker is free for the next request.
Finish(p) ==
    /\ pc[p] = "done"
    /\ pc' = [pc EXCEPT ![p] = "idle"]
    /\ req' = [req EXCEPT ![p] = NoReq]
    /\ loc' = [loc EXCEPT ![p] = NoLocals]
    /\ ret' = [ret EXCEPT ![p] = Pending]
    /\ UNCHANGED <<now, certs, revoked, crlRebuildDue, revokeStorageLock>>

\* The clock advances.
Tick ==
    /\ now < MaxTime
    /\ now' = now + 1
    /\ UNCHANGED <<certs, revoked, crlRebuildDue, revokeStorageLock, pc, req, loc, ret>>

\* One step of worker p inside the handler.
Step(p) ==
    \/ FetchRevEntry(p)
    \/ VerifyPoP(p)
    \/ LoadAccount(p)
    \/ GetIssuedCert(p)
    \/ LockByPoP(p)
    \/ LockByAccount(p)
    \/ revokeCert(p)
    \/ Unlock(p)
    \/ Finish(p)

\* Concurrent workers serving requests of RaceRequests.
Next ==
    \/ Tick
    \/ \E p \in Procs : \E r \in RaceRequests : acmeRevocationHandler(p, r)
    \/ \E p \in Procs : Step(p)

Spec == Init /\ [][Next]_vars

\* One worker serving requests of every kind, one after the other.
NextSeq ==
    \/ Tick
    \/ \E r \in Requests : acmeRevocationHandler(1, r)
    \/ Step(1)

SeqSpec == Init /\ [][NextSeq]_vars

\* The requests that reach the locked region, one per path.
LockRequests ==
    { Request("b64:derA", Absent, FALSE, Nil, "k1"),
      Request("b64:derA", Absent, TRUE, "acct1", "k1") }

\* Concurrent workers serving requests of LockRequests.  The clock stands
\* still: it plays no part in taking or releasing the lock.
NextLock ==
    \/ \E p \in Procs : \E r \in LockRequests : acmeRevocationHandler(p, r)
    \/ \E p \in Procs : Step(p)

\* These workers under a fair scheduler: a worker that can take a step of
\* the handler takes it (revokeCert returns), and a worker that waits for
\* the mutex gets it if it is free again and again.
FairSpec ==
    /\ Init /\ [][NextLock]_vars
    /\ \A p \in Procs : WF_vars(Step(p))
    /\ \A p \in Procs : SF_vars(LockByPoP(p) \/ LockByAccount(p))

\* Two runs of the handler side by side.
TwinProcs == {1, 2}

\* The requests of the two runs, one for each way a request can end.
TwinRequests ==
    { Request("b64:derA", Absent, FALSE, Nil, "k1"),
      Request("b64:derA", Absent, FALSE, Nil, "k2"),
      Request("b64:derA", Absent, TRUE, "acct1", "k1"),
      Request("b64:derA", Absent, TRUE, "acct2", "k1"),
      Request("b64:derA", FloatVal(2), FALSE, Nil, "k1"),
      Request("b64:derB", Absent, FALSE, Nil, "k2"),
      Request("b64:derC", Absent, TRUE, "acct1", "k1"),
      Request("b64:derD", Absent, FALSE, Nil, "k2"),
      Request("not-base64", Absent, FALSE, Nil, "k1") }

\* Two workers serving requests of TwinRequests; the clock advances only
\* between requests, so that requests in flight together read the same time.
NextTwin ==
    \/ Tick /\ \A p \in Procs : pc[p] = "idle"
    \/ \E p \in TwinProcs : \E r \in TwinRequests : acmeRevocationHandler(p, r)
    \/ \E p \in TwinProcs : Step(p)

TwinSpec == Init /\ [][NextTwin]_vars

(***************************************************************************)
(* Properties.                                                             *)
(***************************************************************************)
\* The serial worker p's request names.
SerialOf(p) == serialFromCert(loc[p].cert)

\* Worker p is on the account path, on the proof-of-possession path.
OnAccountPath(p) == req[p].userCtx.Existing
OnPoPPath(p) == ~req[p].userCtx.Existing

\* Worker p waits for the lock.
WaitsForLock(p) == pc[p] \in {"lockPoP", "lockAccount"}

\* C1: of the concurrent requests for one serial exactly one performs the
\* revocation write and succeeds: no two requests have both written the
\* record of the same serial, nor have both ended with success.
C1_ExactlyOneWrite ==
    \A p, q \in Procs :
        (p # q /\ loc[p].cert # NoCert /\ loc[q].cert # NoCert /\ SerialOf(p) = SerialOf(q))
            => /\ ~(loc[p].wrote /\ loc[q].wrote)
               /\ ~(pc[p] = "done" /\ pc[q] = "done" /\ ret[p] = Ok /\ ret[q] = Ok)

\* C2: at most one request is inside revokeCert, and it holds revokeStorageLock.
C2_OneRevocationInFlight ==
    \A p, q \in Procs :
        pc[p] = "revokeCert"
            => /\ revokeStorageLock = p
               /\ (pc[q] = "revokeCert" => p = q)

\* A request is inside revokeCert on the account path while a request for
\* another serial waits for the lock on the proof-of-possession path.
C2_Witness ==
    \E p, q \in Procs :
        /\ pc[p] = "revokeCert" /\ OnAccountPath(p)
        /\ pc[q] = "lockPoP" /\ OnPoPPath(q)
        /\ SerialOf(p) # SerialOf(q)

\* Worker p is in the locked region or has been through it.
ReachedRevokeCert(p) == pc[p] \in {"revokeCert", "unlock"} \/ loc[p].wrote

\* The caller of worker p's request is authorized by its path: the signing
\* key is the certificate's key, or the account is valid and was issued
\* the serial.
AuthorizedByPath(p) ==
    LET u == req[p].userCtx IN
      IF ~u.Existing
        THEN IsSigner(u.Key) /\ u.Key = loc[p].cert.PublicKey
        ELSE /\ Accounts[u.Kid].Status = AccountStatusValid
             /\ <<u.Kid, SerialOf(p)>> \in IssuedCerts

\* C3: a request reaches revokeCert only with every check passed: the
\* certificate parsed, the reason absent or 0, a certs entry with the
\* presented bytes, no revoked entry seen, the caller authorized by its
\* path; and a request goes past the expiry check only with a certificate
\* that is not expired at that time.
C3_WriteOnlyAfterAllChecks ==
    /\ [](\A p \in Procs :
            ReachedRevokeCert(p)
                => /\ loc[p].cert # NoCert
                   /\ req[p].reason \in {Absent, FloatVal(0)}
                   /\ certs[SerialOf(p)].exists
                   /\ certs[SerialOf(p)].Value = loc[p].cert.Raw
                   /\ loc[p].revEntry = NoEntry
                   /\ AuthorizedByPath(p))
    /\ [][\A p \in Procs :
            (pc[p] = "idle" /\ pc'[p] = "fetchRevoked")
                => ~(loc'[p].cert.NotAfter < now)]_vars

\* No step changes a revocation record that exists.
RecordsKept == \A s \in Serials : revoked[s].exists => revoked'[s] = revoked[s]

\* Worker p has answered a request for a serial whose revocation record it
\* did not write: under SeqSpec the record was there when the request came.
LaterRequestDone(p) ==
    /\ pc[p] = "done"
    /\ loc[p].cert # NoCert
    /\ revoked[SerialOf(p)].exists
    /\ ~loc[p].wrote

\* The reason field is one the handler lets through.
ReasonLetThrough(field) ==
    field = Absent \/ (field.type = "float64" /\ IntOf(field.num) = 0)

\* C4 as claimed: a later request for a revoked serial always ends with
\* ErrAlreadyRevoked (failed lookups aside), and the record stays as it was.
C4_AlwaysAlreadyRevoked ==
    /\ [](\A p \in Procs :
            (LaterRequestDone(p) /\ ret[p].err # ErrServerInternal)
                => ret[p].err = ErrAlreadyRevoked)
    /\ [][RecordsKept]_vars

\* C4 as amended: a later request for a revoked serial never succeeds and
\* leaves the record as it was; it ends with ErrAlreadyRevoked unless an
\* earlier check fails: a reason that is no number, an expired certificate
\* or other bytes than the stored ones (ErrMalformed), a reason whose
\* integer part is not 0 (ErrBadRevocationReason), a failed lookup of the
\* CRL configuration, the certs entry or the revoked entry
\* (ErrServerInternal).
C4_LaterRequestRejected ==
    /\ [](\A p \in Procs :
            LaterRequestDone(p)
                => LET e == ret[p]
                       c == loc[p].cert
                       r == req[p].reason
                   IN  /\ e.err \in {ErrAlreadyRevoked, ErrMalformed,
                                     ErrBadRevocationReason, ErrServerInternal}
                       /\ ~loc[p].everLocked
                       /\ e.err = ErrMalformed
                            => \/ (r # Absent /\ r.type # "float64")
                               \/ c.NotAfter < now
                               \/ certs[SerialOf(p)].Value # c.Raw
                       /\ e.err = ErrBadRevocationReason => ~ReasonLetThrough(r)
                       /\ e.err = ErrServerInternal => e.at \in {"config", "certs", "revoked"})
    /\ [][RecordsKept]_vars

\* A request for a serial revoked at an earlier time has ended with ErrAlreadyRevoked.
C4_Witness ==
    \E p \in Procs :
        /\ LaterRequestDone(p)
        /\ ret[p].err = ErrAlreadyRevoked
        /\ revoked[SerialOf(p)].RevocationTime < now

\* Worker p's request has failed before the locked region.
FailedBeforeLock(e) == e.err # Nil /\ e.at # "revokeCert"

\* C5: a request that ends with an error of a check (ErrMalformed,
\* ErrBadRevocationReason, ErrAlreadyRevoked, ErrUnauthorized, or an error
\* of a lookup) has never taken revokeStorageLock nor written, and the step
\* it fails in leaves the certs and revoked namespaces as they are.
C5_FailuresBeforeLock ==
    /\ [](\A p \in Procs :
            FailedBeforeLock(ret[p])
                => /\ ~loc[p].everLocked
                   /\ ~loc[p].wrote
                   /\ revokeStorageLock # p
                   /\ pc[p] = "done")
    /\ [][\A p \in Procs :
            (ret[p] = Pending /\ FailedBeforeLock(ret'[p]))
                => certs' = certs /\ revoked' = revoked]_vars

\* A request of a deactivated account has ended with ErrUnauthorized while
\* the certificate it names is still not revoked.
C5_Witness ==
    \E p \in Procs :
        /\ pc[p] = "done"
        /\ ret[p].err = ErrUnauthorized
        /\ ~revoked[SerialOf(p)].exists

\* C6: the lock is held only by a request in the locked region, never by
\* one that has returned; so a request that waits for the lock gets it,
\* and every request ends.
C6_LockReleased ==
    /\ [](\A p \in Procs : revokeStorageLock = p => pc[p] \in {"revokeCert", "unlock"})
    /\ \A p \in Procs : WaitsForLock(p) ~> (pc[p] = "revokeCert")
    /\ \A p \in Procs : (pc[p] # "idle") ~> (pc[p] = "done")

\* A request waits for the lock while the request that holds it comes back
\* from revokeCert with an error.
C6_Witness ==
    \E p, q \in Procs :
        /\ WaitsForLock(p)
        /\ pc[q] = "unlock"
        /\ ret[q].err # Nil

\* Worker p's request went past validation and the record store checks.
PassedRecordStore(p) == ret[p].at \in {"pop", "account", "issued", "revokeCert"}

\* Worker p's request was authorized: it took the lock, called revokeCert
\* and answers what revokeCert returned.
WentToRevokeCert(p) == loc[p].everLocked /\ ret[p].at = "revokeCert"

\* C7: an account-path request past the record store checks, whose account
\* was loaded, is authorized iff the account is valid and the issuance
\* index has an entry for (kid, serial) that the lookup returned; an
\* account that is not valid ends with ErrUnauthorized whatever the index,
\* a valid one with no entry or a failed lookup with ErrMalformed.
C7_AccountPath ==
    \A p \in Procs :
        (pc[p] = "done" /\ OnAccountPath(p) /\ PassedRecordStore(p)
            /\ loc[p].account # NoAccount)
            => LET kid == req[p].userCtx.Kid
                   valid == Accounts[kid].Status = AccountStatusValid
                   issued == <<kid, SerialOf(p)>> \in IssuedCerts
                   found == issued /\ loc[p].acmeEntry.exists
               IN  /\ WentToRevokeCert(p) <=> (valid /\ found)
                   /\ ret[p] = Ok => (valid /\ issued)
                   /\ ~valid => ret[p].err = ErrUnauthorized
                   /\ (valid /\ ~found) => ret[p].err = ErrMalformed

\* The request of a deactivated account for a certificate issued to it has
\* ended with ErrUnauthorized.
C7_Witness ==
    \E p \in Procs :
        /\ pc[p] = "done" /\ OnAccountPath(p) /\ ret[p].at = "account"
        /\ Accounts[req[p].userCtx.Kid].Status = "deactivated"
        /\ <<req[p].userCtx.Kid, SerialOf(p)>> \in IssuedCerts
        /\ ret[p].err = ErrUnauthorized

\* C8: a proof-of-possession request past the record store checks is
\* authorized iff its signing key is a signer whose public key is the
\* certificate's; any other key ends with ErrMalformed.
C8_PoPPath ==
    \A p \in Procs :
        (pc[p] = "done" /\ OnPoPPath(p) /\ PassedRecordStore(p))
            => LET key == req[p].userCtx.Key
                   match == key # "hmac" /\ key = loc[p].cert.PublicKey
               IN  /\ WentToRevokeCert(p) <=> match
                   /\ ret[p] = Ok => match
                   /\ ~match => ret[p].err = ErrMalformed

\* A request signed with another key than the certificate's has ended with
\* ErrMalformed, the certificate not revoked.
C8_Witness ==
    \E p \in Procs :
        /\ pc[p] = "done" /\ OnPoPPath(p) /\ PassedRecordStore(p)
        /\ req[p].userCtx.Key = "k2" /\ loc[p].cert.PublicKey = "k1"
        /\ ret[p].err = ErrMalformed
        /\ ~revoked[SerialOf(p)].exists

\* C9: an account-path request whose account could not be loaded ends with
\* ErrServerInternal.
C9_LoadAccountErrorIsServerInternal ==
    \A p \in Procs :
        (pc[p] = "done" /\ ret[p].at = "account" /\ loc[p].account = NoAccount)
            => ret[p].err = ErrServerInternal

\* C10: a revocation record that exists exists in the next state.
C10_NoUnrevoke ==
    [][\A s \in Serials : revoked[s].exists => revoked'[s].exists]_vars

\* A serial is revoked while a request for it that raced with the write
\* comes back from revokeCert with an error.
C10_Witness ==
    \E p \in Procs :
        /\ pc[p] = "unlock"
        /\ ret[p].err # Nil
        /\ revoked[SerialOf(p)].exists

\* C11: no step changes the certs namespace; a step that changes storage
\* at all is the write of a request in revokeCert, and it changes the
\* revoked record of that request's serial only, which exists afterwards.
C11_CertsUntouched ==
    [][/\ certs' = certs
       /\ revoked' # revoked
            => \E p \in Procs :
                 /\ pc[p] = "revokeCert" /\ ret'[p] = Ok
                 /\ revoked'[SerialOf(p)].exists
                 /\ \A s \in Serials \ {SerialOf(p)} : revoked'[s] = revoked[s]]_vars

\* A request has revoked derA with success, a later request with other
\* bytes under the same serial has failed, and the stored bytes are the
\* issued ones.
C11_Witness ==
    \E p \in Procs :
        /\ pc[p] = "done" /\ ret[p] = Fail(ErrMalformed, "match")
        /\ revoked["s1"].exists
        /\ certs["s1"] = CertEntry("derA")

\* Worker p has answered a request with a certificate of an unstored serial.
AnsweredUnstored(p) ==
    /\ pc[p] = "done"
    /\ loc[p].cert # NoCert
    /\ ~Expired(loc[p].cert, now)
    /\ ~certs[SerialOf(p)].exists

\* C12 as claimed: a request with a well-formed, unexpired certificate of a
\* serial with no certs entry ends with ErrServerInternal, no record written.
C12_UnstoredIsServerInternal ==
    \A p \in Procs :
        AnsweredUnstored(p)
            => /\ ret[p].err = ErrServerInternal
               /\ ~loc[p].wrote /\ ~revoked[SerialOf(p)].exists

\* C12 as amended: such a request, its reason absent or let through, ends
\* with ErrServerInternal from the configuration or the certs lookup,
\* whoever the caller is; with a reason that is not let through it ends with
\* the reason's error; in both cases it never takes the lock and no record
\* of the serial is written.
C12_UnstoredRejected ==
    \A p \in Procs :
        AnsweredUnstored(p)
            => /\ ReasonLetThrough(req[p].reason)
                    => (ret[p].err = ErrServerInternal /\ ret[p].at \in {"config", "certs"})
               /\ ~ReasonLetThrough(req[p].reason)
                    => ret[p] = CheckReason(req[p].reason)
               /\ ~loc[p].everLocked /\ ~loc[p].wrote
               /\ ~revoked[SerialOf(p)].exists

\* The account the index names, signing with the certificate's key, has
\* asked to revoke the unstored derD and got ErrServerInternal for the
\* missing entry.
C12_Witness ==
    \E p \in Procs :
        /\ AnsweredUnstored(p)
        /\ req[p].userCtx.Existing /\ req[p].userCtx.Key = loc[p].cert.PublicKey
        /\ req[p].reason = Absent
        /\ ret[p] = Fail(ErrServerInternal, "certs")

\* Worker p has answered a request whose certificate differs from the one
\* stored under its serial.
AnsweredMismatch(p) ==
    /\ pc[p] = "done"
    /\ loc[p].cert # NoCert
    /\ certs[SerialOf(p)].exists
    /\ certs[SerialOf(p)].Value # loc[p].cert.Raw

\* C13 as claimed: a request whose certificate differs from the stored one
\* ends with ErrMalformed (failed lookups aside) and writes nothing.
C13_MismatchIsMalformed ==
    \A p \in Procs :
        (AnsweredMismatch(p) /\ ret[p].err # ErrServerInternal)
            => ret[p].err = ErrMalformed /\ ~loc[p].wrote

\* C13 as amended: such a request never reaches authorization, the lock or
\* the write; it ends with ErrMalformed from the comparison when the checks
\* before it pass, else with the error of the reason check, of the expiry
\* check or of a failed lookup.
C13_MismatchRejected ==
    \A p \in Procs :
        AnsweredMismatch(p)
            => /\ ret[p].at \in {"reason", "expiry", "config", "certs", "match"}
               /\ ret[p].at = "reason" => ret[p] = CheckReason(req[p].reason)
               /\ ret[p].at \in {"expiry", "match"} => ret[p].err = ErrMalformed
               /\ ret[p].at \in {"config", "certs"} => ret[p].err = ErrServerInternal
               /\ (ReasonLetThrough(req[p].reason) /\ ~Expired(loc[p].cert, now)
                     /\ ret[p].err # ErrServerInternal)
                    => ret[p] = Fail(ErrMalformed, "match")
               /\ ~loc[p].everLocked /\ ~loc[p].wrote

\* The holder of derB's key has presented derB, which carries the serial of
\* the stored derA, and got ErrMalformed from the comparison; the serial is
\* not revoked.
C13_Witness ==
    \E p \in Procs :
        /\ AnsweredMismatch(p)
        /\ ~req[p].userCtx.Existing /\ req[p].userCtx.Key = loc[p].cert.PublicKey
        /\ ret[p] = Fail(ErrMalformed, "match")
        /\ ~revoked[SerialOf(p)].exists

\* C14: a request whose certificate parsed ends at the reason check with
\* ErrBadRevocationReason when its reason is a number other than 0, with
\* ErrMalformed when its reason is no number, and goes past the check when
\* its reason is absent or 0.
C14_OnlyZeroAccepted ==
    \A p \in Procs :
        (pc[p] = "done" /\ loc[p].cert # NoCert)
            => LET r == req[p].reason IN
                 /\ (r.type = "float64" /\ r.num # 0)
                      => ret[p] = Fail(ErrBadRevocationReason, "reason")
                 /\ (r.type \notin {"absent", "float64"})
                      => ret[p] = Fail(ErrMalformed, "reason")
                 /\ (r = Absent \/ r = FloatVal(0)) => ret[p].at # "reason"

\* Worker p's request comes to the expiry check in this step: its
\* certificate parsed and its reason was let through.
ComesToExpiryCheck(p) ==
    /\ pc[p] = "idle" /\ pc'[p] # "idle"
    /\ loc'[p].cert # NoCert
    /\ CheckReason(req'[p].reason) = Pending

\* C15 as amended: a request that comes to the expiry check ends there with
\* ErrMalformed when NotAfter is earlier than the clock, and goes past it
\* when NotAfter is the clock's value or later.
C15_NotEarlier ==
    [][\A p \in Procs :
        ComesToExpiryCheck(p)
            => IF loc'[p].cert.NotAfter < now
                 THEN ret'[p] = Fail(ErrMalformed, "expiry")
                 ELSE ret'[p].at # "expiry"]_vars

\* A request with a certificate whose NotAfter is the clock's value has
\* gone past the expiry check and the certs checks.
C15_Witness ==
    \E p \in Procs :
        /\ pc[p] = "fetchRevoked"
        /\ loc[p].cert.NotAfter = now

\* C15 as claimed: a request that comes to the expiry check (certificate
\* parsed, reason let through) goes past it only with NotAfter later than
\* the clock, and ends with ErrMalformed when NotAfter is the clock's value
\* or earlier.
C15_StrictlyLater ==
    [][\A p \in Procs :
        (pc[p] = "idle" /\ pc'[p] # "idle" /\ loc'[p].cert # NoCert
            /\ CheckReason(req'[p].reason) = Pending)
            => IF loc'[p].cert.NotAfter <= now
                 THEN ret'[p] = Fail(ErrMalformed, "expiry")
                 ELSE ret'[p].at # "expiry"]_vars

\* What the validation and authorization path made of worker p's request:
\* the kind of its error, or pass when it went on to revokeCert.
Classification(p) == IF ret[p].at = "revokeCert" THEN "pass" ELSE ret[p].err

\* A lookup of worker p's run failed: the configuration, the certs entry of
\* a stored serial, the revoked entry, the account, or the issuance entry
\* of a pair on record.
LookupFailed(p) ==
    \/ ret[p].at = "config"
    \/ ret[p].at = "certs" /\ certs[SerialOf(p)].exists
    \/ ret[p] = Fail(ErrServerInternal, "revoked")
    \/ ret[p].at = "account" /\ loc[p].account = NoAccount
    \/ ret[p].at = "issued" /\ <<req[p].userCtx.Kid, SerialOf(p)>> \in IssuedCerts

\* Workers p and q have run the same request at the same time on the same
\* state: the same fields and caller, no failed lookup, and the same
\* revocation record read, if any was read.
SameInput(p, q) ==
    /\ p # q
    /\ pc[p] = "done" /\ pc[q] = "done"
    /\ req[p] = req[q]
    /\ ~LookupFailed(p) /\ ~LookupFailed(q)
    /\ loc[p].revEntry = loc[q].revEntry

C17_LockWriteSignalUnlock ==
    /\ [](\A p \in Procs :
            /\ loc[p].wrote => loc[p].everLocked
            /\ pc[p] = "unlock" => revokeStorageLock = p)
    /\ [][/\ (revoked' # revoked \/ crlRebuildDue' # crlRebuildDue)
             => \E p \in Procs : pc[p] = "revokeCert" /\ ~loc[p].wrote /\ loc'[p].wrote
          /\ \A p \in Procs :
               /\ (~loc[p].wrote /\ loc'[p].wrote)
                    => /\ revokeStorageLock = p /\ revokeStorageLock' = p
                       /\ revoked'[SerialOf(p)].exists /\ crlRebuildDue'
                       /\ ret'[p] = Ok
               /\ (revokeStorageLock = p /\ revokeStorageLock' # p)
                    => /\ pc[p] = "unlock" /\ pc'[p] = "done"
                       /\ revoked' = revoked /\ crlRebuildDue' = crlRebuildDue]_vars

\* A request has come back from revokeCert with success, the record
\* written and the CRL rebuild signalled, and still holds the lock, for
\* which another request waits.
C17_Witness ==
    \E p, q \in Procs :
        /\ pc[p] = "unlock" /\ ret[p] = Ok /\ loc[p].wrote
        /\ revokeStorageLock = p
        /\ revoked[SerialOf(p)].exists /\ crlRebuildDue
        /\ WaitsForLock(q)

\* C18: a request with Existing = true never comes to the proof of
\* possession, and with a valid account and no issuance entry it ends with
\* ErrMalformed whatever its key; a request with Existing = false never
\* comes to the account or the issuance index, loads neither, and with the
\* certificate's key it goes on to revokeCert.
C18_PathByExistingAlone ==
    \A p \in Procs :
        pc[p] # "idle"
            => /\ OnAccountPath(p)
                    => /\ pc[p] \notin {"byPoP", "lockPoP"}
                       /\ ret[p].at # "pop"
                       /\ (pc[p] = "done" /\ PassedRecordStore(p)
                             /\ loc[p].account = [Status |-> AccountStatusValid]
                             /\ <<req[p].userCtx.Kid, SerialOf(p)>> \notin IssuedCerts)
                            => ret[p] = Fail(ErrMalformed, "issued")
               /\ OnPoPPath(p)
                    => /\ pc[p] \notin {"byAccount", "getIssuedCert", "lockAccount"}
                       /\ ret[p].at \notin {"account", "issued"}
                       /\ loc[p].account = NoAccount /\ loc[p].acmeEntry = NoEntry
                       /\ (pc[p] = "done" /\ PassedRecordStore(p)
                             /\ req[p].userCtx.Key = loc[p].cert.PublicKey)
                            => WentToRevokeCert(p)

\* A valid account signing with the certificate's own key, to which the
\* certificate was not issued, has ended with ErrMalformed from the
\* issuance index.
C18_Witness ==
    \E p \in Procs :
        /\ pc[p] = "done" /\ OnAccountPath(p)
        /\ ret[p] = Fail(ErrMalformed, "issued")
        /\ req[p].userCtx.Key = loc[p].cert.PublicKey
        /\ <<req[p].userCtx.Kid, SerialOf(p)>> \notin IssuedCerts

\* The answer e to a request on arrival is the one of the first check that
\* fails, in the order: certificate field, reason, expiry at clock t, CRL
\* configuration, certs lookup, byte equality.  The two lookups may fail
\* whatever the request; e is Pending when the request goes on to the
\* revoked lookup.
FirstFailingCheck(r, t, e) ==
    LET c == ParseCertificateField(r.certificate)
        reason == CheckReason(r.reason)
        entry == certs[serialFromCert(c.cert)]
    IN  IF c.ret # Pending THEN e = Fail(ErrMalformed, "certificate")
        ELSE IF reason # Pending
          THEN /\ e = reason
               /\ e.at = "reason"
               /\ e.err \in {ErrMalformed, ErrBadRevocationReason}
        ELSE IF c.cert.NotAfter < t THEN e = Fail(ErrMalformed, "expiry")
        ELSE \/ e = Fail(ErrServerInternal, "config")
             \/ e = Fail(ErrServerInternal, "certs")
             \/ /\ entry.exists
                /\ IF entry.Value # c.cert.Raw
                     THEN e = Fail(ErrMalformed, "match")
                     ELSE e = Pending

\* Worker p's request has come past the revoked lookup, to authorization
\* or further.
PastRevokedLookup(p) ==
    \/ pc[p] \in {"byPoP", "byAccount", "getIssuedCert", "lockPoP", "lockAccount",
                  "revokeCert", "unlock"}
    \/ ret[p].at \in {"pop", "account", "issued", "revokeCert"}

\* C19: the error of a request is that of the first failing check in the
\* order certificate field, reason, expiry, CRL configuration, certs
\* lookup, byte equality, revoked lookup, authorization: the answer on
\* arrival is that of the first failing check up to byte equality; the
\* revoked lookup answers only requests that passed those, with
\* ErrServerInternal or ErrAlreadyRevoked; and authorization is reached only
\* by requests that passed those and for which no revocation record was read.
C19_FirstFailingCheck ==
    /\ [][\A p \in Procs :
            (pc[p] = "idle" /\ pc'[p] # "idle")
                => /\ FirstFailingCheck(req'[p], now, ret'[p])
                   /\ ret'[p] = Pending <=> pc'[p] = "fetchRevoked"]_vars
    /\ [](\A p \in Procs :
            /\ (pc[p] = "fetchRevoked" \/ ret[p].at = "revoked" \/ PastRevokedLookup(p))
                 => /\ ParseCertificateField(req[p].certificate).ret = Pending
                    /\ CheckReason(req[p].reason) = Pending
                    /\ certs[SerialOf(p)] = CertEntry(loc[p].cert.Raw)
            /\ ret[p].at = "revoked"
                 => ret[p].err \in {ErrServerInternal, ErrAlreadyRevoked}
            /\ PastRevokedLookup(p) => loc[p].revEntry = NoEntry)

\* A request with reason 1 for a certificate that is expired and already
\* revoked has ended with ErrBadRevocationReason.
C19_Witness ==
    \E p \in Procs :
        /\ pc[p] = "done"
        /\ loc[p].cert # NoCert
        /\ req[p].reason = FloatVal(2)
        /\ loc[p].cert.NotAfter < now
        /\ revoked[SerialOf(p)].exists
        /\ ret[p] = Fail(ErrBadRevocationReason, "reason")

\* Worker p has answered a well-formed request that names a stored
\* certificate with a revocation record: the certificate is the stored one
\* and is not expired, the reason is one the handler lets through, and the
\* record was there when the request came.
AnsweredRevokedStored(p) ==
    /\ LaterRequestDone(p)
    /\ certs[SerialOf(p)] = CertEntry(loc[p].cert.Raw)
    /\ ReasonLetThrough(req[p].reason)
    /\ ~Expired(loc[p].cert, now)

\* C20: a well-formed request for a stored, already revoked certificate ends
\* with ErrAlreadyRevoked (or with a failed lookup) whoever the caller is;
\* the account, the issuance index and the key are never consulted for it,
\* and no request for which a revocation record was read comes to
\* authorization.
C20_AlreadyRevokedWhoeverAsks ==
    \A p \in Procs :
        /\ AnsweredRevokedStored(p)
             => /\ ret[p].err # ErrServerInternal
                     => ret[p] = Fail(ErrAlreadyRevoked, "revoked")
                /\ ret[p].err = ErrServerInternal
                     => ret[p].at \in {"config", "certs", "revoked"}
                /\ loc[p].account = NoAccount /\ loc[p].acmeEntry = NoEntry
                /\ ~loc[p].everLocked
        /\ loc[p].revEntry.exists
             => /\ ~PastRevokedLookup(p)
                /\ ret[p] = Fail(ErrAlreadyRevoked, "revoked")

\* A deactivated account signing with a key that is not the certificate's
\* has asked to revoke the revoked derA and got ErrAlreadyRevoked.
C20_Witness ==
    \E p \in Procs :
        /\ AnsweredRevokedStored(p)
        /\ req[p].userCtx.Existing
        /\ Accounts[req[p].userCtx.Kid].Status # AccountStatusValid
        /\ req[p].userCtx.Key # loc[p].cert.PublicKey
        /\ ret[p] = Fail(ErrAlreadyRevoked, "revoked")

=============================================================================
